---- MODULE Spec2Model ----
(***************************************************************************)
(* Model of pkgs/trigger/src/trigger/example.ts: the task                  *)
(* "upload-optimized-image" and the function                               *)
(* upload_image_to_digital_ocean_spaces it awaits.                         *)
(*                                                                         *)
(* Strings are sequences of one-character strings.  Every await of the     *)
(* source is a point where an invocation is suspended; one action is the   *)
(* code that runs between two awaits of one invocation.  The outcomes of   *)
(* fs.readFile, fetch, sharp and the managed Upload are chosen by the      *)
(* environment.                                                            *)
(***************************************************************************)
EXTENDS Integers, Sequences, FiniteSets, TLC

\* ------------------------------------------------------------------ bounds
NumInvocations == 2     \* invocations that run interleaved
MaxPartsConcurrent == 2 \* parts of a payload when invocations run interleaved
MaxParts == 5           \* parts of a payload when one invocation runs alone
MaxLen == 3             \* length of a folder or a slug in key construction

Invocations == 1..NumInvocations

\* --------------------------------------------------------- string literals
Slash == "/"
Dot == <<".">>
DotDot == <<".", ".">>
Alphabet == {"a", ".", "/"}

REGION == <<"n", "y", "c", "3">>
fileExtension == <<"a", "v", "i", "f">>
Scheme == <<"h", "t", "t", "p", "s", ":", "/", "/">>
CdnDomain ==
  <<".", "c", "d", "n", ".", "d", "i", "g", "i", "t", "a", "l", "o", "c", "e",
    "a", "n", "s", "p", "a", "c", "e", "s", ".", "c", "o", "m", "/">>

\* uuidv4(): the n-th identifier handed out by the generator.  An identifier
\* holds no "/" and no "."; distinct calls give distinct identifiers.
Digit(n) == CASE n = 0 -> "0" [] n = 1 -> "1" [] n = 2 -> "2" [] n = 3 -> "3"
              [] n = 4 -> "4" [] n = 5 -> "5" [] n = 6 -> "6" [] n = 7 -> "7"
              [] n = 8 -> "8" [] OTHER -> "9"
uuidv4(n) == <<"u", Digit(n)>>

\* ------------------------------------------------------ path.posix.join
\* s.split("/")
RECURSIVE Split(_)
Split(s) ==
  IF \A k \in 1..Len(s) : s[k] # Slash
  THEN <<s>>
  ELSE LET i == CHOOSE k \in 1..Len(s) :
                  s[k] = Slash /\ \A j \in 1..(k - 1) : s[j] # Slash
       IN <<SubSeq(s, 1, i - 1)>> \o Split(SubSeq(s, i + 1, Len(s)))

\* segs.join("/")
RECURSIVE JoinSegs(_)
JoinSegs(segs) ==
  IF segs = <<>> THEN <<>>
  ELSE IF Len(segs) = 1 THEN segs[1]
  ELSE segs[1] \o <<Slash>> \o JoinSegs(Tail(segs))

\* normalizeString of node's path module, segment by segment: res is the
\* stack of segments kept so far.
RECURSIVE NormSegs(_, _, _)
NormSegs(segs, res, allowAboveRoot) ==
  IF segs = <<>> THEN res
  ELSE LET s == Head(segs)
           rest == Tail(segs)
       IN IF s = <<>> \/ s = Dot
          THEN NormSegs(rest, res, allowAboveRoot)
          ELSE IF s = DotDot
          THEN IF res # <<>> /\ res[Len(res)] # DotDot
               THEN NormSegs(rest, SubSeq(res, 1, Len(res) - 1), allowAboveRoot)
               ELSE IF allowAboveRoot
               THEN NormSegs(rest, Append(res, DotDot), allowAboveRoot)
               ELSE NormSegs(rest, res, allowAboveRoot)
          ELSE NormSegs(rest, Append(res, s), allowAboveRoot)

\* path.posix.normalize
posixNormalize(p) ==
  IF p = <<>> THEN Dot
  ELSE LET isAbsolute == p[1] = Slash
           trailingSeparator == p[Len(p)] = Slash
           body == JoinSegs(NormSegs(Split(p), <<>>, ~isAbsolute))
       IN IF body = <<>>
          THEN IF isAbsolute THEN <<Slash>>
               ELSE IF trailingSeparator THEN <<".", Slash>> ELSE Dot
          ELSE (IF isAbsolute THEN <<Slash>> ELSE <<>>) \o body \o
               (IF trailingSeparator THEN <<Slash>> ELSE <<>>)

\* A join that pastes its arguments together without normalising.
posixJoinRaw(a, b) == a \o <<Slash>> \o b

\* path.posix.join(a, b): empty arguments are skipped, the rest is joined
\* with "/" and normalised.
posixJoin(a, b) ==
  IF a = <<>> /\ b = <<>> THEN Dot
  ELSE IF a = <<>> THEN posixNormalize(b)
  ELSE IF b = <<>> THEN posixNormalize(a)
  ELSE posixNormalize(a \o <<Slash>> \o b)

\* ------------------------------------------------- key and URL (84-88, 135)
\* A file name base that leaves the identifier out.
fileNameBaseNoUuid(slug, uuid) == slug \o <<"-">>

fileNameBase(slug, uuid) == slug \o <<"-">> \o uuid

avifFileName(slug, uuid) == fileNameBase(slug, uuid) \o Dot \o fileExtension

ObjectKey(dest, uuid) ==
  posixJoin(dest.object_folder, avifFileName(dest.object_slug, uuid))

\* The template literal of the return statement.
OptimizedImgUrl(dest, key) ==
  Scheme \o dest.bucket_name \o Dot \o REGION \o CdnDomain \o key

\* Upload parameters that name the slug instead of the computed key.
uploadParamsSlugKey(dest, key) ==
  [Bucket |-> dest.bucket_name, Key |-> dest.object_slug]

\* Bucket and Key of uploadParams (Body, ACL and ContentType are fixed).
uploadParamsOf(dest, key) == [Bucket |-> dest.bucket_name, Key |-> key]

\* ------------------------------------------------------------ environment
\* process.env values: unset, set to the empty string, set to a key.
Undefined == "<undefined>"
EnvValues == {Undefined, "", "KEY"}
Falsy(v) == v = Undefined \/ v = ""

\* A check that looks at the access key only.
CredentialsMissingAccessOnly(e) == Falsy(e.access)

\* !ACCESS_KEY || !SECRET_KEY
CredentialsMissing(e) == Falsy(e.access) \/ Falsy(e.secret)

\* HTTP statuses a fetch can resolve with.
Statuses == {200, 304, 404}

\* An ok test that lets redirects and not-modified through.
ResponseOkBelow400(status) == status < 400

\* response.ok
ResponseOk(status) == status >= 200 /\ status <= 299

\* A queue of five workers.
queueSizeFive == 4 + 1

\* queueSize passed to Upload
queueSize == 4

\* ------------------------------------------------------------------ inputs
SourceTypes == {"local", "remote", "other"}
\* Interleaved invocations all name the same destination.
Dests ==
  { [bucket_name |-> <<"b">>, object_folder |-> <<"a">>, object_slug |-> <<"s">>] }
Inputs == [source : SourceTypes, dest : Dests]

\* Destinations of an invocation that runs alone.
UploadDests ==
  [bucket_name : {<<"b">>, <<"b", ".", "c">>},
   object_folder : {<<"a">>, <<>>, <<"a", "/">>, <<".", ".">>},
   object_slug : {<<"s">>}]
UploadInputs == [source : SourceTypes, dest : UploadDests]

\* All strings over Alphabet of length at most MaxLen.
Strings == UNION { [1..n -> Alphabet] : n \in 0..MaxLen }
AllDests ==
  [bucket_name : {<<"b">>}, object_folder : Strings, object_slug : Strings]

\* ------------------------------------------------------------------ errors
Err(at, message, status) == [at |-> at, message |-> message, status |-> status]
CredentialsError ==
  Err("config",
      "DigitalOcean Spaces credentials are not set in environment variables.", 0)
InvalidTypeError == Err("acquire", "Invalid input type", 0)
ReadError == Err("acquire", "ENOENT: no such file or directory", 0)
FetchError == Err("acquire", "fetch failed", 0)
DownloadError(status) == Err("acquire", "Failed to download image", status)
BodyError == Err("acquire", "body stream failed", 0)
SharpError == Err("transcode", "Input buffer contains unsupported image format", 0)
PartError == Err("upload", "part upload failed", 0)
CompleteError == Err("upload", "complete multipart upload failed", 0)

NoError == Err("none", "", 0)
NoResponse == [kind |-> "none", status |-> 0]
Unreachable == [kind |-> "unreachable", status |-> 0]
Response(status) == [kind |-> "response", status |-> status]
NoOutcome == [kind |-> "none"]
NoParams == [Bucket |-> <<>>, Key |-> <<>>]

\* --------------------------------------------------------------- variables
VARIABLES
  env,          \* process.env: the two credential variables
  uuidCount,    \* identifiers handed out by uuidv4 so far
  pc,           \* per invocation: the await it is suspended at
  input,        \* per invocation: the payload
  uuid,         \* per invocation: the identifier it drew
  objectKey,    \* per invocation: const objectKey
  uploadParams, \* per invocation: Bucket and Key given to Upload
  nParts,       \* per invocation: parts the Body is split into
  started,      \* per invocation: part requests sent so far
  inflight,     \* per invocation: part requests awaiting their response
  completed,    \* per invocation: parts whose request succeeded
  outcome,      \* per invocation: what the promise of the function settled to
  taskOutcome,  \* per invocation: what the task's run settled to
  errlog,       \* per invocation: console.error lines
  outlog,       \* per invocation: console.log lines
  fsReads,      \* per invocation: fs.readFile calls
  httpGets,     \* per invocation: fetch calls
  transcodes,   \* per invocation: sharp(...).toBuffer() calls
  uploadCalls,  \* per invocation: Upload.done() calls
  thrown,       \* per invocation: the error as it was first thrown
  response,     \* per invocation: what fetch settled to
  keyIn,        \* key construction on its own: the destination
  keyOut        \* key construction on its own: key and URL, once computed

pipelineVars ==
  <<env, uuidCount, pc, input, uuid, objectKey, uploadParams, nParts, started,
    inflight, completed, outcome, taskOutcome, errlog, outlog, fsReads,
    httpGets, transcodes, uploadCalls, thrown, response>>
keyVars == <<keyIn, keyOut>>
vars == <<pipelineVars, keyVars>>

NoInput == [source |-> "none", dest |-> CHOOSE d \in Dests : TRUE]
NoKeyOut == [computed |-> FALSE, key |-> <<>>, url |-> <<>>]

PipelineInit ==
  /\ uuidCount = 0
  /\ pc = [i \in Invocations |-> "idle"]
  /\ input = [i \in Invocations |-> NoInput]
  /\ uuid = [i \in Invocations |-> <<>>]
  /\ objectKey = [i \in Invocations |-> <<>>]
  /\ uploadParams = [i \in Invocations |-> NoParams]
  /\ nParts = [i \in Invocations |-> 0]
  /\ started = [i \in Invocations |-> 0]
  /\ inflight = [i \in Invocations |-> {}]
  /\ completed = [i \in Invocations |-> {}]
  /\ outcome = [i \in Invocations |-> NoOutcome]
  /\ taskOutcome = [i \in Invocations |-> NoOutcome]
  /\ errlog = [i \in Invocations |-> <<>>]
  /\ outlog = [i \in Invocations |-> <<>>]
  /\ fsReads = [i \in Invocations |-> 0]
  /\ httpGets = [i \in Invocations |-> 0]
  /\ transcodes = [i \in Invocations |-> 0]
  /\ uploadCalls = [i \in Invocations |-> 0]
  /\ thrown = [i \in Invocations |-> NoError]
  /\ response = [i \in Invocations |-> NoResponse]

Init ==
  /\ env \in [access : EnvValues, secret : EnvValues]
  /\ PipelineInit
  /\ keyIn = NoInput.dest
  /\ keyOut = NoKeyOut

\* ------------------------------------------------------ settling a promise
\* A catch block that answers with a default instead of rethrowing.
RethrowFallback(e) == [kind |-> "result", value |-> [optimized_img_url |-> <<>>]]

\* throw error: the promise rejects with the error it caught.
Rethrow(e) == [kind |-> "error", error |-> e]

\* return { optimized_img_url: ... }
Return(url) == [kind |-> "result", value |-> [optimized_img_url |-> url]]

\* A run that answers with an empty result when the function rejects.
taskRunSwallow(o) ==
  IF o.kind = "result"
  THEN [kind |-> "result", value |-> [result |-> o.value]]
  ELSE [kind |-> "result", value |-> [result |-> [optimized_img_url |-> <<>>]]]

\* run of uploadOptimizedImageTask: awaits the function and wraps its value;
\* a rejection passes through.
taskRun(o) ==
  IF o.kind = "result"
  THEN [kind |-> "result", value |-> [result |-> o.value]]
  ELSE o

PcOf(o) == IF o.kind = "error" THEN "failed" ELSE "done"

\* The catch block of the function: console.error, then throw.
Catch(i, e) ==
  /\ thrown' = [thrown EXCEPT ![i] = e]
  /\ errlog' = [errlog EXCEPT ![i] = Append(@, e.message)]
  /\ outcome' = [outcome EXCEPT ![i] = Rethrow(e)]
  /\ taskOutcome' = [taskOutcome EXCEPT ![i] = taskRun(Rethrow(e))]
  /\ pc' = [pc EXCEPT ![i] = PcOf(Rethrow(e))]

\* A dispatch that takes every source that is not local for a remote one.
SourceAccessElse(type) == IF type = "local" THEN "readFile" ELSE "fetch"

\* The if / else if / else on input.source.type.
SourceAccess(type) ==
  IF type = "local" THEN "readFile"
  ELSE IF type = "remote" THEN "fetch"
  ELSE "throw"

\* ------------------------------------------------------------------ actions
\* The task is triggered: run logs, calls the function, and the function runs
\* up to its first await (or throws before it).
Call(i, in) ==
  /\ pc[i] = "idle"
  /\ input' = [input EXCEPT ![i] = in]
  /\ UNCHANGED <<env, uploadParams, nParts, started, inflight, completed,
                 outlog, transcodes, uploadCalls, response, keyVars>>
  /\ IF CredentialsMissing(env)
     THEN \* thrown before the try block: no catch, no console.error
          /\ thrown' = [thrown EXCEPT ![i] = CredentialsError]
          /\ outcome' = [outcome EXCEPT ![i] = Rethrow(CredentialsError)]
          /\ taskOutcome' = [taskOutcome EXCEPT ![i] = taskRun(Rethrow(CredentialsError))]
          /\ pc' = [pc EXCEPT ![i] = "failed"]
          /\ UNCHANGED <<uuidCount, uuid, objectKey, errlog, fsReads, httpGets>>
     ELSE /\ uuidCount' = uuidCount + 1
          /\ uuid' = [uuid EXCEPT ![i] = uuidv4(uuidCount')]
          /\ objectKey' = [objectKey EXCEPT ![i] = ObjectKey(in.dest, uuidv4(uuidCount'))]
          /\ CASE SourceAccess(in.source) = "readFile" ->
                    /\ fsReads' = [fsReads EXCEPT ![i] = @ + 1]
                    /\ pc' = [pc EXCEPT ![i] = "reading"]
                    /\ UNCHANGED <<httpGets, outcome, taskOutcome, errlog, thrown>>
               [] SourceAccess(in.source) = "fetch" ->
                    /\ httpGets' = [httpGets EXCEPT ![i] = @ + 1]
                    /\ pc' = [pc EXCEPT ![i] = "fetching"]
                    /\ UNCHANGED <<fsReads, outcome, taskOutcome, errlog, thrown>>
               [] OTHER ->
                    /\ Catch(i, InvalidTypeError)
                    /\ UNCHANGED <<fsReads, httpGets>>

\* The buffer is there: sharp(imageBuffer).avif({quality: 85}).toBuffer()
StartTranscoding(i) ==
  /\ transcodes' = [transcodes EXCEPT ![i] = @ + 1]
  /\ pc' = [pc EXCEPT ![i] = "transcoding"]
  /\ UNCHANGED <<env, uuidCount, input, uuid, objectKey, uploadParams, nParts,
                 started, inflight, completed, outcome, taskOutcome, errlog,
                 outlog, fsReads, httpGets, uploadCalls, thrown, response,
                 keyVars>>

\* An awaited promise rejects inside the try block.  When it is done() that
\* rejects, the Upload has aborted its requests and is dropped.
Fail(i, e) ==
  /\ Catch(i, e)
  /\ nParts' = [nParts EXCEPT ![i] = 0]
  /\ started' = [started EXCEPT ![i] = 0]
  /\ inflight' = [inflight EXCEPT ![i] = {}]
  /\ completed' = [completed EXCEPT ![i] = {}]
  /\ UNCHANGED <<env, uuidCount, input, uuid, objectKey, uploadParams, outlog,
                 fsReads, httpGets, transcodes, uploadCalls, keyVars>>

ReadFileOk(i) == pc[i] = "reading" /\ StartTranscoding(i)
ReadFileFail(i) == pc[i] = "reading" /\ Fail(i, ReadError) /\ UNCHANGED response

\* download_image: fetch resolved with a response
FetchResponse(i, status) ==
  /\ pc[i] = "fetching"
  /\ response' = [response EXCEPT ![i] = Response(status)]
  /\ IF ResponseOk(status)
     THEN /\ pc' = [pc EXCEPT ![i] = "body"]
          /\ UNCHANGED <<env, uuidCount, input, uuid, objectKey, uploadParams,
                         nParts, started, inflight, completed, outcome,
                         taskOutcome, errlog, outlog, fsReads, httpGets,
                         transcodes, uploadCalls, thrown, keyVars>>
     ELSE Fail(i, DownloadError(status))

\* download_image: fetch rejected (DNS, connection, timeout)
FetchReject(i) ==
  /\ pc[i] = "fetching"
  /\ response' = [response EXCEPT ![i] = Unreachable]
  /\ Fail(i, FetchError)

\* download_image: response.arrayBuffer()
BodyOk(i) == pc[i] = "body" /\ StartTranscoding(i)
BodyFail(i) == pc[i] = "body" /\ Fail(i, BodyError) /\ UNCHANGED response

Min(a, b) == IF a < b THEN a ELSE b

\* sharp resolved with a buffer that the Upload splits into n parts;
\* uploadParams is built, the Upload is made and done() is called: each of
\* its queueSize workers takes a part, while there are parts, and sends it.
TranscodeOk(i, n) ==
  /\ pc[i] = "transcoding"
  /\ uploadParams' = [uploadParams EXCEPT ![i] = uploadParamsOf(input[i].dest, objectKey[i])]
  /\ uploadCalls' = [uploadCalls EXCEPT ![i] = @ + 1]
  /\ nParts' = [nParts EXCEPT ![i] = n]
  /\ started' = [started EXCEPT ![i] = Min(n, queueSize)]
  /\ inflight' = [inflight EXCEPT ![i] = 1..Min(n, queueSize)]
  /\ pc' = [pc EXCEPT ![i] = "uploading"]
  /\ UNCHANGED <<env, uuidCount, input, uuid, objectKey, completed, outcome,
                 taskOutcome, errlog, outlog, fsReads, httpGets, transcodes,
                 thrown, response, keyVars>>

TranscodeFail(i) ==
  pc[i] = "transcoding" /\ Fail(i, SharpError) /\ UNCHANGED response

\* done() resolved: console.log, return the URL; run wraps it.
UploadResolved(i) ==
  /\ outlog' = [outlog EXCEPT ![i] = Append(@, <<input[i].dest.bucket_name, objectKey[i]>>)]
  /\ outcome' = [outcome EXCEPT ![i] = Return(OptimizedImgUrl(input[i].dest, objectKey[i]))]
  /\ taskOutcome' = [taskOutcome EXCEPT ![i] =
                       taskRun(Return(OptimizedImgUrl(input[i].dest, objectKey[i])))]
  /\ pc' = [pc EXCEPT ![i] = "done"]

\* Upload: the request of part p succeeded and its worker takes the next
\* part, if one is left.  A body of one part is a single PutObject and done()
\* resolves with it; the last of several parts leaves the completion request
\* to send.
PartOk(i, p) ==
  /\ pc[i] = "uploading"
  /\ p \in inflight[i]
  /\ completed' = [completed EXCEPT ![i] = @ \cup {p}]
  /\ IF started[i] < nParts[i]
     THEN /\ started' = [started EXCEPT ![i] = @ + 1]
          /\ inflight' = [inflight EXCEPT ![i] = (@ \ {p}) \cup {started[i] + 1}]
     ELSE /\ inflight' = [inflight EXCEPT ![i] = @ \ {p}]
          /\ UNCHANGED started
  /\ UNCHANGED <<env, uuidCount, input, uuid, objectKey, uploadParams, nParts,
                 errlog, fsReads, httpGets, transcodes, uploadCalls, thrown,
                 response, keyVars>>
  /\ IF completed'[i] = 1..nParts[i]
     THEN IF nParts[i] = 1
          THEN UploadResolved(i)
          ELSE /\ pc' = [pc EXCEPT ![i] = "completing"]
               /\ UNCHANGED <<outcome, taskOutcome, outlog>>
     ELSE UNCHANGED <<pc, outcome, taskOutcome, outlog>>

\* Upload: the request of part p failed; the other requests are aborted and
\* done() rejects.
PartFail(i, p) ==
  /\ pc[i] = "uploading"
  /\ p \in inflight[i]
  /\ Fail(i, PartError)
  /\ UNCHANGED response

\* Upload: CompleteMultipartUpload succeeded; done() resolves.
CompleteOk(i) ==
  /\ pc[i] = "completing"
  /\ UploadResolved(i)
  /\ UNCHANGED <<env, uuidCount, input, uuid, objectKey, uploadParams, nParts,
                 started, inflight, completed, errlog, fsReads, httpGets,
                 transcodes, uploadCalls, thrown, response, keyVars>>

CompleteFail(i) ==
  pc[i] = "completing" /\ Fail(i, CompleteError) /\ UNCHANGED response

\* Key and URL construction on its own, for one destination.
ComputeKey ==
  /\ ~keyOut.computed
  /\ keyOut' = [computed |-> TRUE,
                key |-> ObjectKey(keyIn, uuidv4(1)),
                url |-> OptimizedImgUrl(keyIn, ObjectKey(keyIn, uuidv4(1)))]
  /\ UNCHANGED <<keyIn, pipelineVars>>

Next ==
  \/ \E i \in Invocations, in \in Inputs : Call(i, in)
  \/ \E i \in Invocations : ReadFileOk(i)
  \/ \E i \in Invocations : ReadFileFail(i)
  \/ \E i \in Invocations, status \in Statuses : FetchResponse(i, status)
  \/ \E i \in Invocations : FetchReject(i)
  \/ \E i \in Invocations : BodyOk(i)
  \/ \E i \in Invocations : BodyFail(i)
  \/ \E i \in Invocations, n \in 1..MaxPartsConcurrent : TranscodeOk(i, n)
  \/ \E i \in Invocations : TranscodeFail(i)
  \/ \E i \in Invocations, p \in 1..MaxPartsConcurrent : PartOk(i, p)
  \/ \E i \in Invocations, p \in 1..MaxPartsConcurrent : PartFail(i, p)
  \/ \E i \in Invocations : CompleteOk(i)
  \/ \E i \in Invocations : CompleteFail(i)

\* Interleaved invocations with one destination and small payloads.
Spec == Init /\ [][Next]_vars

UploadNext ==
  \/ \E in \in UploadInputs : Call(1, in)
  \/ ReadFileOk(1)
  \/ ReadFileFail(1)
  \/ \E status \in Statuses : FetchResponse(1, status)
  \/ FetchReject(1)
  \/ BodyOk(1)
  \/ BodyFail(1)
  \/ \E n \in 1..MaxParts : TranscodeOk(1, n)
  \/ TranscodeFail(1)
  \/ \E p \in 1..MaxParts : PartOk(1, p)
  \/ \E p \in 1..MaxParts : PartFail(1, p)
  \/ CompleteOk(1)
  \/ CompleteFail(1)

\* One invocation alone, with payloads of up to MaxParts parts.
UploadSpec == Init /\ [][UploadNext]_vars

\* Key construction alone, over every folder and slug up to MaxLen.
KeyInit ==
  /\ env = [access |-> "KEY", secret |-> "KEY"]
  /\ PipelineInit
  /\ keyIn \in AllDests
  /\ keyOut = NoKeyOut

KeyNext == ComputeKey

KeySpec == KeyInit /\ [][KeyNext]_vars

\* ================================================================== claims
Settled(i) == pc[i] \in {"done", "failed"}

Phase(i) ==
  CASE pc[i] = "idle" -> "Idle"
    [] pc[i] \in {"reading", "fetching", "body"} -> "Acquiring"
    [] pc[i] = "transcoding" -> "Transcoding"
    [] pc[i] \in {"uploading", "completing"} -> "Uploading"
    [] pc[i] = "done" -> "Done"
    [] OTHER -> "Failed"

EnvCredentialsSet ==
  /\ env.access # Undefined /\ env.access # ""
  /\ env.secret # Undefined /\ env.secret # ""

\* sub occurs in s as a contiguous run
Contains(s, sub) ==
  \E k \in 0..(Len(s) - Len(sub)) : SubSeq(s, k + 1, k + Len(sub)) = sub

\* The parts of "https://<bucket>.nyc3.cdn.digitaloceanspaces.com/<path>"
HostSuffix ==
  <<".", "n", "y", "c", "3", ".", "c", "d", "n", ".", "d", "i", "g", "i", "t",
    "a", "l", "o", "c", "e", "a", "n", "s", "p", "a", "c", "e", "s", ".", "c",
    "o", "m">>
AfterScheme(url) == SubSeq(url, 9, Len(url))
HostEnd(rest) ==
  CHOOSE k \in 1..Len(rest) : rest[k] = "/" /\ \A j \in 1..(k - 1) : rest[j] # "/"
HostOf(url) == SubSeq(AfterScheme(url), 1, HostEnd(AfterScheme(url)) - 1)
PathSegment(url) ==
  SubSeq(AfterScheme(url), HostEnd(AfterScheme(url)) + 1, Len(AfterScheme(url)))
BucketSegment(url) == SubSeq(HostOf(url), 1, Len(HostOf(url)) - Len(HostSuffix))
WellFormedUrl(url) ==
  /\ Len(url) > 8
  /\ SubSeq(url, 1, 8) = <<"h", "t", "t", "p", "s", ":", "/", "/">>
  /\ \E k \in 1..Len(AfterScheme(url)) : AfterScheme(url)[k] = "/"
  /\ Len(HostOf(url)) >= Len(HostSuffix)
  /\ SubSeq(HostOf(url), Len(HostOf(url)) - Len(HostSuffix) + 1, Len(HostOf(url)))
       = HostSuffix

\* C1: when either credential is unset or empty, every invocation that was
\* made has failed with the credentials error and has made no fetch, no
\* Upload.done() call and no part request, whatever its source.
C1_NoNetworkWithoutCredentials ==
  ~EnvCredentialsSet =>
    \A i \in Invocations :
      /\ pc[i] \in {"idle", "failed"}
      /\ pc[i] = "failed" =>
           /\ outcome[i].kind = "error"
           /\ outcome[i].error.at = "config"
      /\ httpGets[i] = 0 /\ uploadCalls[i] = 0 /\ started[i] = 0
      /\ fsReads[i] = 0

C1_Witness ==
  \E i, j \in Invocations :
    /\ env.access = "KEY" /\ env.secret = ""
    /\ pc[i] = "failed" /\ input[i].source = "remote"
    /\ pc[j] = "failed" /\ input[j].source = "local"

\* C2: once the fetch of a remote source was answered with a status outside
\* 200..299, or was not answered at all, the invocation has rejected with an
\* acquisition error, sharp was never called and Upload.done() was never
\* called.
C2_AcquisitionFailureStopsPipeline ==
  \A i \in Invocations :
    (\/ response[i].kind = "unreachable"
     \/ response[i].kind = "response"
        /\ (response[i].status < 200 \/ response[i].status > 299))
    => /\ pc[i] = "failed"
       /\ outcome[i].kind = "error"
       /\ outcome[i].error.at = "acquire"
       /\ taskOutcome[i].kind = "error"
       /\ transcodes[i] = 0
       /\ uploadCalls[i] = 0

C2_Witness ==
  \E i, j \in Invocations :
    /\ response[i] = Response(404) /\ pc[i] = "failed"
    /\ response[j] = Unreachable /\ pc[j] = "failed"

\* C3: an invocation is settled exactly when its promise is; a result is the
\* URL, comes only after every part of the upload completed with no error
\* thrown, and the task returns it wrapped in {result}; once an error was
\* thrown both the function and the task reject and hold no value.
C3_ResultOrError ==
  \A i \in Invocations :
    /\ Settled(i) <=> outcome[i].kind # "none"
    /\ outcome[i].kind = "none" <=> taskOutcome[i].kind = "none"
    /\ thrown[i] # NoError =>
         /\ outcome[i].kind = "error"
         /\ taskOutcome[i].kind = "error"
    /\ outcome[i].kind = "result" =>
         /\ pc[i] = "done"
         /\ thrown[i] = NoError
         /\ nParts[i] >= 1
         /\ completed[i] = 1..nParts[i]
         /\ WellFormedUrl(outcome[i].value.optimized_img_url)
         /\ taskOutcome[i] = [kind |-> "result", value |-> [result |-> outcome[i].value]]

C3_Witness ==
  \E i, j \in Invocations :
    /\ outcome[i].kind = "result" /\ taskOutcome[i].kind = "result"
    /\ outcome[j].kind = "error" /\ thrown[j].at = "upload"

\* C4: in a returned URL the bucket segment is the Bucket given to the upload
\* and dest.bucket_name, and the path segment is the Key given to the upload.
C4_UrlMatchesUpload ==
  \A i \in Invocations :
    outcome[i].kind = "result" =>
      /\ uploadCalls[i] = 1
      /\ WellFormedUrl(outcome[i].value.optimized_img_url)
      /\ BucketSegment(outcome[i].value.optimized_img_url) = uploadParams[i].Bucket
      /\ uploadParams[i].Bucket = input[i].dest.bucket_name
      /\ PathSegment(outcome[i].value.optimized_img_url) = uploadParams[i].Key

C4_Witness ==
  \E i \in Invocations :
    /\ outcome[i].kind = "result"
    /\ input[i].dest.bucket_name = <<"b", ".", "c">>
    /\ input[i].dest.object_folder = <<"a", "/">>
    /\ uploadParams[i].Key = <<"a", "/", "s", "-", "u", "1", ".", "a", "v", "i", "f">>

\* C5: two invocations that both called the upload with the same dest gave it
\* different keys, and each key holds the identifier its invocation drew.
C5_DistinctKeys ==
  \A i, j \in Invocations :
    (i # j /\ uploadCalls[i] > 0 /\ uploadCalls[j] > 0
       /\ input[i].dest = input[j].dest)
    => /\ uploadParams[i].Key # uploadParams[j].Key
       /\ uuid[i] # uuid[j]
       /\ Contains(uploadParams[i].Key, uuid[i])
       /\ Contains(uploadParams[j].Key, uuid[j])

C5_Witness ==
  \E i, j \in Invocations :
    /\ i # j /\ pc[i] = "done" /\ pc[j] = "uploading"
    /\ input[i].dest = input[j].dest

\* C6: every rejection hands the caller the error as it was thrown, and its
\* message is on console.error by then.
C6_EveryErrorLoggedAndRethrown ==
  \A i \in Invocations :
    outcome[i].kind = "error" =>
      /\ outcome[i].error = thrown[i]
      /\ taskOutcome[i] = outcome[i]
      /\ Len(errlog[i]) = 1
      /\ errlog[i][1] = thrown[i].message

\* C7 as stated: the key is folder + "/" + slug + "-" + id + ".avif" for every
\* folder and slug, and the URL is the CDN prefix followed by that key.
PastedKey(dest, id) ==
  dest.object_folder \o <<"/">> \o dest.object_slug \o <<"-">> \o id \o
  <<".", "a", "v", "i", "f">>
UrlPrefix(dest) ==
  <<"h", "t", "t", "p", "s", ":", "/", "/">> \o dest.bucket_name \o HostSuffix \o <<"/">>

C7_KeyIsPasted ==
  keyOut.computed =>
    /\ keyOut.key = PastedKey(keyIn, <<"u", "1">>)
    /\ keyOut.url = UrlPrefix(keyIn) \o PastedKey(keyIn, <<"u", "1">>)

\* folder + "/" + file name is a path in normal form: the folder is not
\* empty, and after a leading "/" or a leading run of ".." segments no
\* segment is empty, "." or "..".
RegularSegment(seg) == seg # <<>> /\ seg # <<".">> /\ seg # <<".", ".">>
PastedIsNormal(dest, id) ==
  LET segs == Split(PastedKey(dest, id))
  IN /\ dest.object_folder # <<>>
     /\ \E m \in 0..Len(segs) :
          /\ \A k \in 1..m : segs[k] = <<".", ".">>
          /\ \A k \in (m + 1)..Len(segs) :
               RegularSegment(segs[k]) \/ (k = 1 /\ segs[k] = <<>>)

\* C7 amended: the URL is the CDN prefix followed by the key, the key ends in
\* "-" + id + ".avif", and the key is folder + "/" + slug + "-" + id + ".avif"
\* exactly when that string is a path in normal form.
C7_KeyIsNormalizedJoin ==
  keyOut.computed =>
    /\ keyOut.url = UrlPrefix(keyIn) \o keyOut.key
    /\ Len(keyOut.key) >= 8
    /\ SubSeq(keyOut.key, Len(keyOut.key) - 7, Len(keyOut.key))
         = <<"-", "u", "1", ".", "a", "v", "i", "f">>
    /\ (keyOut.key = PastedKey(keyIn, <<"u", "1">>)
          <=> PastedIsNormal(keyIn, <<"u", "1">>))

C7_Witness ==
  /\ keyOut.computed
  /\ keyIn.object_folder = <<"a", "/", ".">>
  /\ keyIn.object_slug = <<>>
  /\ keyOut.key = <<"a", "/", "-", "u", "1", ".", "a", "v", "i", "f">>

\* C8: every step moves an invocation along Acquiring -> Transcoding ->
\* Uploading -> Done or into Failed, or leaves its phase alone; nothing
\* leaves Done or Failed; and no source access, transcoding or upload is made
\* a second time.
PhaseSteps ==
  { <<"Idle", "Acquiring">>, <<"Idle", "Failed">>,
    <<"Acquiring", "Transcoding">>, <<"Acquiring", "Failed">>,
    <<"Transcoding", "Uploading">>, <<"Transcoding", "Failed">>,
    <<"Uploading", "Done">>, <<"Uploading", "Failed">> }

C8_PhaseOrder ==
  [][\A i \in Invocations :
       /\ Phase(i)' = Phase(i) \/ <<Phase(i), Phase(i)'>> \in PhaseSteps
       /\ Phase(i) \in {"Done", "Failed"} =>
            /\ pc'[i] = pc[i]
            /\ outcome'[i] = outcome[i]
       /\ fsReads'[i] + httpGets'[i] <= 1
       /\ transcodes'[i] <= 1
       /\ uploadCalls'[i] <= 1
       /\ Phase(i)' = "Transcoding" => fsReads'[i] + httpGets'[i] = 1
       /\ Phase(i)' = "Uploading" => transcodes'[i] = 1
       /\ Phase(i)' = "Done" => uploadCalls'[i] = 1 /\ thrown'[i] = NoError]_vars

C8_Witness ==
  \E i \in Invocations :
    /\ pc[i] = "done" /\ input[i].source = "remote"
    /\ httpGets[i] = 1 /\ transcodes[i] = 1 /\ uploadCalls[i] = 1

\* C9: at most 4 part requests are in flight; a URL is returned only when
\* every part has completed and none is in flight; after a failed part or a
\* failed completion the invocation has failed and holds no URL.
C9_BoundedPartsAllComplete ==
  \A i \in Invocations :
    /\ Cardinality(inflight[i]) <= 4
    /\ inflight[i] \cap completed[i] = {}
    /\ outcome[i].kind = "result" =>
         /\ completed[i] = 1..nParts[i]
         /\ inflight[i] = {}
    /\ thrown[i].at = "upload" =>
         /\ pc[i] = "failed"
         /\ outcome[i].kind = "error"
         /\ taskOutcome[i].kind = "error"

C9_Witness ==
  \E i \in Invocations :
    /\ nParts[i] = 5
    /\ Cardinality(inflight[i]) = 4
    /\ 1 \in inflight[i]
    /\ 3 \in completed[i]

\* C10: an invocation that got past the credentials check made one
\* fs.readFile and no fetch for a local source, one fetch and no fs.readFile
\* for a remote source, and for any other source type neither, failing with
\* "Invalid input type" before sharp or the upload.
C10_OneSourceAccess ==
  \A i \in Invocations :
    (EnvCredentialsSet /\ pc[i] # "idle") =>
      /\ input[i].source = "local" => fsReads[i] = 1 /\ httpGets[i] = 0
      /\ input[i].source = "remote" => fsReads[i] = 0 /\ httpGets[i] = 1
      /\ input[i].source = "other" =>
           /\ fsReads[i] = 0 /\ httpGets[i] = 0
           /\ pc[i] = "failed"
           /\ outcome[i].kind = "error"
           /\ outcome[i].error.message = "Invalid input type"
           /\ transcodes[i] = 0 /\ uploadCalls[i] = 0

C10_Witness ==
  \E i, j \in Invocations :
    /\ input[i].source = "other" /\ pc[i] = "failed" /\ EnvCredentialsSet
    /\ input[j].source = "remote" /\ pc[j] = "done"

====
